---- MODULE Spec2Model ----
(***************************************************************************)
(* Model of warp_tray_app.py: a tray utility that probes the state of the  *)
(* warp-svc systemd unit (D-Bus first, `systemctl is-active` as fallback), *)
(* mirrors it in a tray icon and menu, and issues start/stop/restart       *)
(* commands through systemctl.                                             *)
(*                                                                         *)
(* All handlers are Qt slots run by the single event loop.  A handler that *)
(* calls subprocess.run for a control command is split at that blocking    *)
(* call: pc = "cmd" is the event loop blocked inside subprocess.run.       *)
(***************************************************************************)
EXTENDS Integers, Sequences, FiniteSets, TLC

VARIABLES
    pc,                \* "init" | "idle" | "cmd" | "exited" | "crashed"
    exit_code,         \* -1 while the process runs, else the exit status
    systemd_interface, \* ServiceMonitor.systemd_interface is set (not None)
    current_status,    \* WarpTrayApp.current_status
    ui,                \* menu actions, tooltip and icon of the tray
    cmd,               \* control command the event loop is blocked in
    svc,               \* ActiveState of the real warp-svc unit
    log,               \* what the current (or last) handler did, in order
    penv,              \* SpecProbe: environment of one probe call
    pres               \* SpecProbe: result of that probe call

vars == <<pc, exit_code, systemd_interface, current_status, ui, cmd, svc,
          log, penv, pres>>

----------------------------------------------------------------------------
(* Bounds and program constants *)

MaxPad == 1    \* longest run of whitespace around a status command's output

CommandTimeout == 10     \* timeout= of systemctl start / stop
RestartTimeout == 15     \* timeout= of systemctl restart
TimerInterval  == 3000   \* QTimer period, ms

----------------------------------------------------------------------------
(* Text: the output of the status command is a sequence of characters *)

Whitespace == {" ", "\n", "\t"}

ActiveText   == <<"a", "c", "t", "i", "v", "e">>
InactiveText == <<"i", "n">> \o ActiveText
FailedText   == <<"f", "a", "i", "l", "e", "d">>

RECURSIVE LStrip(_)
LStrip(s) ==
    IF s # <<>> /\ Head(s) \in Whitespace THEN LStrip(Tail(s)) ELSE s

RECURSIVE RStrip(_)
RStrip(s) ==
    IF s # <<>> /\ s[Len(s)] \in Whitespace
    THEN RStrip(SubSeq(s, 1, Len(s) - 1))
    ELSE s

\* str.strip()
Strip(s) == RStrip(LStrip(s))

----------------------------------------------------------------------------
(* Outcome of a call: a returned value or a raised exception *)

Return(v) == [kind |-> "return", val |-> v]
Raise(e)  == [kind |-> "raise", val |-> e]

----------------------------------------------------------------------------
(* ServiceMonitor *)

\* What the init system answers to one probe:
\*   reply        GetUnit gives a unit path, an error reply, or the query raises
\*   active_state the ActiveState property of the unit
\*   fb           systemctl is-active exits, times out, or cannot be spawned
\*   stdout, rc   its output and exit code when it exits
ActiveStates == {"active", "inactive", "activating", "failed"}
Replies      == {"ok", "error", "raise"}
FallbackRuns == {"exit", "timeout", "oserror"}

\* subprocess.run(["systemctl", "is-active", "warp-svc"], ...), bounded by its timeout
RunStatusCommand(env) ==
    CASE env.fb = "exit"    -> Return([stdout |-> env.stdout, returncode |-> env.rc])
      [] env.fb = "timeout" -> Raise("TimeoutExpired")
      [] OTHER              -> Raise("OSError")

FallbackStatusCheck_uncaught(env) ==
    LET result == RunStatusCommand(env) IN
    IF result.kind = "raise"
    THEN result
    ELSE Return(Strip(result.val.stdout) = ActiveText)

FallbackStatusCheck_exact(env) ==
    LET result == RunStatusCommand(env) IN
    IF result.kind = "raise"
    THEN Return(FALSE)
    ELSE Return(result.val.stdout = ActiveText /\ result.val.returncode = 0)

\* ServiceMonitor._fallback_status_check
FallbackStatusCheck(env) ==
    LET result == RunStatusCommand(env) IN
    IF result.kind = "raise"
    THEN Return(FALSE)
    ELSE Return(Strip(result.val.stdout) = ActiveText)

StructuredQuery_prefix(env) ==
    CASE env.reply = "raise" -> Raise("Exception")
      [] env.reply = "error" -> Return(FALSE)
      [] OTHER               -> Return(env.active_state \in {"active", "activating"})

\* the try body of get_service_status
StructuredQuery(env) ==
    CASE env.reply = "raise" -> Raise("Exception")
      [] env.reply = "error" -> Return(FALSE)
      [] OTHER               -> Return(env.active_state = "active")

\* ServiceMonitor.get_service_status
GetServiceStatus(iface, env) ==
    IF ~iface
    THEN FallbackStatusCheck(env)
    ELSE LET r == StructuredQuery(env) IN
         IF r.kind = "raise" THEN FallbackStatusCheck(env) ELSE r

----------------------------------------------------------------------------
(* Events a handler leaves in log *)

Trigger(what, arg) == [ev |-> "trigger", what |-> what, arg |-> arg]
Notify(title, text, icon, ms) ==
    [ev |-> "notify", title |-> title, text |-> text, icon |-> icon, ms |-> ms]
Run(action, timeout) == [ev |-> "run", action |-> action, timeout |-> timeout]
Ended(out) ==
    [ev |-> "ended", how |-> out.how, rc |-> out.rc, stderr |-> out.stderr]
Probe(result, before) == [ev |-> "probe", result |-> result, before |-> before]
Emit(to, thread) == [ev |-> "emit", to |-> to, thread |-> thread]
Printed(text) == [ev |-> "print", text |-> text]

\* every slot is invoked by the Qt event loop, on the thread that built the app
UiThread == "ui"

----------------------------------------------------------------------------
(* WarpTrayApp: presentation *)

\* before QSystemTrayIcon and the menu exist
NoUi ==
    [status_text |-> "", status_enabled |-> FALSE, tooltip |-> "",
     start_enabled |-> FALSE, stop_enabled |-> FALSE, icon |-> "none"]

\* WarpTrayApp.setup_menu: a QAction is enabled unless disabled
SetupMenu ==
    [status_text |-> "Checking...", status_enabled |-> FALSE, tooltip |-> "",
     start_enabled |-> TRUE, stop_enabled |-> TRUE, icon |-> "none"]

\* WarpTrayApp.update_icon
UpdateIcon(u, status) ==
    [u EXCEPT !.icon = IF status THEN "active" ELSE "inactive"]

\* WarpTrayApp.on_status_changed: the new current_status and presentation
OnStatusChanged(u, is_active) ==
    LET shown ==
            IF is_active
            THEN [u EXCEPT !.status_text = "● Warp Service: Active",
                           !.status_enabled = FALSE,
                           !.tooltip = "Warp Service is: Active\nClick to disconnect",
                           !.start_enabled = FALSE,
                           !.stop_enabled = TRUE]
            ELSE [u EXCEPT !.status_text = "○ Warp Service: Inactive",
                           !.status_enabled = FALSE,
                           !.tooltip = "Warp Service is: Inactive\nClick to connect",
                           !.start_enabled = TRUE,
                           !.stop_enabled = FALSE]
    IN [status |-> is_active, ui |-> UpdateIcon(shown, is_active)]

UpdateStatus_level(r, cur, u) ==
    LET changed == OnStatusChanged(u, r.val) IN
    [raised |-> FALSE, status |-> changed.status, ui |-> changed.ui,
     events |-> <<Probe(r.val, cur), Emit(r.val, UiThread)>>]

UpdateStatus_stale(r, cur, u) ==
    IF r.kind = "raise"
    THEN [raised |-> TRUE, status |-> cur, ui |-> u, events |-> <<>>]
    ELSE IF r.val # cur /\ r.val
         THEN LET changed == OnStatusChanged(u, r.val) IN
              [raised |-> FALSE, status |-> changed.status, ui |-> changed.ui,
               events |-> <<Probe(r.val, cur), Emit(r.val, UiThread)>>]
         ELSE [raised |-> FALSE, status |-> cur, ui |-> u,
               events |-> <<Probe(r.val, cur)>>]

\* WarpTrayApp.update_status, given what get_service_status did (r):
\* the new current_status and presentation, and the events of the cycle
UpdateStatus(r, cur, u) ==
    IF r.kind = "raise"
    THEN [raised |-> TRUE, status |-> cur, ui |-> u, events |-> <<>>]
    ELSE IF r.val # cur
         THEN LET changed == OnStatusChanged(u, r.val) IN
              [raised |-> FALSE, status |-> changed.status, ui |-> changed.ui,
               events |-> <<Probe(r.val, cur), Emit(r.val, UiThread)>>]
         ELSE [raised |-> FALSE, status |-> cur, ui |-> u,
               events |-> <<Probe(r.val, cur)>>]

----------------------------------------------------------------------------
(* Environments of a probe *)

\* what systemctl is-active prints: a state name and a newline
StatusOutputs == {ActiveText \o <<"\n">>, InactiveText \o <<"\n">>}

\* the probes of the running application read the unit's real ActiveState
AppEnvs ==
    [reply : Replies, active_state : {svc}, fb : FallbackRuns,
     stdout : StatusOutputs, rc : {0, 3}]

\* every stdout the status command may print: a word in whitespace
PadChars == {" ", "\n"}
Pads == UNION {[1..n -> PadChars] : n \in 0..MaxPad}
Words == {<<>>, ActiveText, InactiveText, FailedText}
Stdouts == {l \o w \o r : l \in Pads, w \in Words, r \in Pads}

\* unit_interface.property() gives None when the property cannot be read
PropertyValues == ActiveStates \cup {"None"}

AllEnvs ==
    [reply : Replies, active_state : PropertyValues, fb : FallbackRuns,
     stdout : Stdouts, rc : {0, 3}]

NoEnv ==
    [reply |-> "ok", active_state |-> "None", fb |-> "exit",
     stdout |-> <<>>, rc |-> 0]

Pending == [kind |-> "pending", val |-> FALSE]

----------------------------------------------------------------------------
(* Control commands *)

\* stderr of systemctl start/stop/restart
Stderrs == {"", "Failed to start warp-svc.service: Access denied\n"}

\* how subprocess.run of a control command ends
CmdOutcomes ==
    [how : {"exit"}, rc : {0, 1}, stderr : Stderrs]
    \cup [how : {"timeout", "oserror"}, rc : {-1}, stderr : {""}]

\* str(e) of the exception subprocess.run raises
ExceptionText(action, timeout, out) ==
    IF out.how = "timeout"
    THEN "Command '['systemctl', '" \o action \o "', 'warp-svc']' timed out after "
         \o ToString(timeout) \o " seconds"
    ELSE "[Errno 2] No such file or directory: 'systemctl'"

ActionName(start) == IF start THEN "Starting" ELSE "Stopping"
\* action_name.lower()
ActionNameLower(start) == IF start THEN "starting" ELSE "stopping"

SetServiceStateOutcome_swallow(start, out) ==
    LET action == IF start THEN "start" ELSE "stop" IN
    CASE out.how = "exit" /\ out.rc = 0 ->
            <<Notify("Warp Service",
                     IF start THEN "Service started" ELSE "Service stopped",
                     "Information", 2000)>>
      [] out.how = "exit" /\ out.rc # 0 ->
            <<Notify("Warp Service Error",
                     IF out.stderr # "" THEN out.stderr
                     ELSE "Failed to " \o action \o " service",
                     "Critical", 4000)>>
      [] out.how = "timeout" ->
            <<Notify("Warp Service",
                     "Timeout while " \o ActionNameLower(start) \o " service",
                     "Warning", 3000)>>
      [] OTHER -> <<>>

SetServiceStateOutcome_generic(start, out) ==
    LET action == IF start THEN "start" ELSE "stop" IN
    CASE out.how = "exit" /\ out.rc = 0 ->
            <<Notify("Warp Service",
                     IF start THEN "Service started" ELSE "Service stopped",
                     "Information", 2000)>>
      [] out.how = "exit" /\ out.rc # 0 ->
            <<Notify("Warp Service Error",
                     "Failed to " \o action \o " service",
                     "Critical", 4000)>>
      [] out.how = "timeout" ->
            <<Notify("Warp Service",
                     "Timeout while " \o ActionNameLower(start) \o " service",
                     "Warning", 3000)>>
      [] OTHER ->
            <<Notify("Warp Service Error",
                     "Error: " \o ExceptionText(action, CommandTimeout, out),
                     "Critical", 4000)>>

\* set_service_state: the notification shown for the way the command ended
SetServiceStateOutcome(start, out) ==
    LET action == IF start THEN "start" ELSE "stop" IN
    CASE out.how = "exit" /\ out.rc = 0 ->
            <<Notify("Warp Service",
                     IF start THEN "Service started" ELSE "Service stopped",
                     "Information", 2000)>>
      [] out.how = "exit" /\ out.rc # 0 ->
            <<Notify("Warp Service Error",
                     IF out.stderr # "" THEN out.stderr
                     ELSE "Failed to " \o action \o " service",
                     "Critical", 4000)>>
      [] out.how = "timeout" ->
            <<Notify("Warp Service",
                     "Timeout while " \o ActionNameLower(start) \o " service",
                     "Warning", 3000)>>
      [] OTHER ->
            <<Notify("Warp Service Error",
                     "Error: " \o ExceptionText(action, CommandTimeout, out),
                     "Critical", 4000)>>

\* restart_service: the notification shown for the way the command ended
RestartOutcome(out) ==
    CASE out.how = "exit" /\ out.rc = 0 ->
            <<Notify("Warp Service", "Service restarted", "Information", 2000)>>
      [] out.how = "exit" /\ out.rc # 0 ->
            <<Notify("Warp Service Error",
                     IF out.stderr # "" THEN out.stderr
                     ELSE "Failed to restart service",
                     "Critical", 4000)>>
      [] OTHER ->
            <<Notify("Warp Service Error",
                     "Restart failed: " \o ExceptionText("restart", RestartTimeout, out),
                     "Critical", 4000)>>

----------------------------------------------------------------------------
(* The application *)

Init ==
    /\ pc = "init"
    /\ exit_code = -1
    /\ systemd_interface = FALSE
    /\ current_status = FALSE
    /\ ui = NoUi
    /\ cmd = "none"
    /\ svc \in ActiveStates
    /\ log = <<>>
    /\ penv = NoEnv
    /\ pres = Pending

Running == pc \in {"init", "idle", "cmd"}

\* another actor, or a command in flight, changes the unit
ServiceChanges(s) ==
    /\ Running
    /\ s # svc
    /\ svc' = s
    /\ UNCHANGED <<pc, exit_code, systemd_interface, current_status, ui, cmd,
                   log, penv, pres>>

Startup_active(tray, bus, env) ==
    /\ pc = "init"
    /\ IF ~tray
       THEN /\ pc' = "exited"
            /\ exit_code' = 1
            /\ log' = <<Trigger("init", ""), Printed("System tray is not available")>>
            /\ UNCHANGED <<systemd_interface, current_status, ui>>
       ELSE LET r  == GetServiceStatus(bus, env)
                us == UpdateStatus(r, TRUE, UpdateIcon(SetupMenu, TRUE))
            IN /\ systemd_interface' = bus
               /\ current_status' = us.status
               /\ ui' = us.ui
               /\ log' = <<Trigger("init", "")>> \o us.events
                         \o (IF us.raised THEN <<>>
                             ELSE <<[ev |-> "timer", ms |-> TimerInterval]>>)
               /\ pc' = IF us.raised THEN "crashed" ELSE "idle"
               /\ exit_code' = IF us.raised THEN 1 ELSE -1
    /\ UNCHANGED <<cmd, svc, penv, pres>>

\* WarpTrayApp.__init__ (with ServiceMonitor.__init__ and setup_dbus)
Startup(tray, bus, env) ==
    /\ pc = "init"
    /\ IF ~tray
       THEN /\ pc' = "exited"
            /\ exit_code' = 1
            /\ log' = <<Trigger("init", ""), Printed("System tray is not available")>>
            /\ UNCHANGED <<systemd_interface, current_status, ui>>
       ELSE LET r  == GetServiceStatus(bus, env)
                us == UpdateStatus(r, FALSE, UpdateIcon(SetupMenu, FALSE))
            IN /\ systemd_interface' = bus
               /\ current_status' = us.status
               /\ ui' = us.ui
               /\ log' = <<Trigger("init", "")>> \o us.events
                         \o (IF us.raised THEN <<>>
                             ELSE <<[ev |-> "timer", ms |-> TimerInterval]>>)
               /\ pc' = IF us.raised THEN "crashed" ELSE "idle"
               /\ exit_code' = IF us.raised THEN 1 ELSE -1
    /\ UNCHANGED <<cmd, svc, penv, pres>>

\* QTimer.timeout -> update_status
Tick(env) ==
    /\ pc = "idle"
    /\ LET r  == GetServiceStatus(systemd_interface, env)
           us == UpdateStatus(r, current_status, ui)
       IN /\ current_status' = us.status
          /\ ui' = us.ui
          /\ log' = <<Trigger("tick", "")>> \o us.events
          /\ pc' = IF us.raised THEN "crashed" ELSE "idle"
          /\ exit_code' = IF us.raised THEN 1 ELSE -1
    /\ UNCHANGED <<systemd_interface, cmd, svc, penv, pres>>

SetServiceStateBegin_optimistic(start, trig) ==
    LET action == IF start THEN "start" ELSE "stop" IN
    /\ pc = "idle"
    /\ pc' = "cmd"
    /\ cmd' = action
    /\ current_status' = start
    /\ log' = <<trig,
                Notify("Warp Service", ActionName(start) \o " service...",
                       "Information", 1000),
                Run(action, CommandTimeout)>>
    /\ UNCHANGED <<exit_code, systemd_interface, ui, svc, penv, pres>>

SetServiceStateBegin_early(start, trig) ==
    LET action == IF start THEN "start" ELSE "stop" IN
    /\ pc = "idle"
    /\ pc' = "cmd"
    /\ cmd' = action
    /\ \E env \in AppEnvs :
          LET us == UpdateStatus(GetServiceStatus(systemd_interface, env),
                                 current_status, ui)
          IN /\ current_status' = us.status
             /\ ui' = us.ui
             /\ log' = <<trig,
                         Notify("Warp Service", ActionName(start) \o " service...",
                                "Information", 1000),
                         Run(action, CommandTimeout)>> \o us.events
    /\ UNCHANGED <<exit_code, systemd_interface, svc, penv, pres>>

\* set_service_state up to the blocking subprocess.run
SetServiceStateBegin(start, trig) ==
    LET action == IF start THEN "start" ELSE "stop" IN
    /\ pc = "idle"
    /\ pc' = "cmd"
    /\ cmd' = action
    /\ log' = <<trig,
                Notify("Warp Service", ActionName(start) \o " service...",
                       "Information", 1000),
                Run(action, CommandTimeout)>>
    /\ UNCHANGED <<exit_code, systemd_interface, current_status, ui, svc,
                   penv, pres>>

\* set_service_state from the return of subprocess.run to its own return
SetServiceStateEnd(out, env) ==
    /\ pc = "cmd"
    /\ cmd \in {"start", "stop"}
    /\ LET start  == cmd = "start"
           probed == out.how = "exit"
           us     == UpdateStatus(GetServiceStatus(systemd_interface, env),
                                  current_status, ui)
           caught == IF us.raised
                     THEN <<Notify("Warp Service Error", "Error: Exception",
                                   "Critical", 4000)>>
                     ELSE <<>>
       IN /\ log' = log \o <<Ended(out)>>
                        \o SetServiceStateOutcome(start, out)
                        \o (IF probed THEN us.events \o caught ELSE <<>>)
          /\ current_status' = IF probed THEN us.status ELSE current_status
          /\ ui' = IF probed THEN us.ui ELSE ui
    /\ pc' = "idle"
    /\ cmd' = "none"
    /\ UNCHANGED <<exit_code, systemd_interface, svc, penv, pres>>

\* restart_service up to the blocking subprocess.run
RestartServiceBegin(trig) ==
    /\ pc = "idle"
    /\ pc' = "cmd"
    /\ cmd' = "restart"
    /\ log' = <<trig,
                Notify("Warp Service", "Restarting service...", "Information", 1000),
                Run("restart", RestartTimeout)>>
    /\ UNCHANGED <<exit_code, systemd_interface, current_status, ui, svc,
                   penv, pres>>

\* restart_service from the return of subprocess.run to its own return
RestartServiceEnd(out, env) ==
    /\ pc = "cmd"
    /\ cmd = "restart"
    /\ LET probed == out.how = "exit"
           us     == UpdateStatus(GetServiceStatus(systemd_interface, env),
                                  current_status, ui)
           caught == IF us.raised
                     THEN <<Notify("Warp Service Error", "Restart failed: Exception",
                                   "Critical", 4000)>>
                     ELSE <<>>
       IN /\ log' = log \o <<Ended(out)>>
                        \o RestartOutcome(out)
                        \o (IF probed THEN us.events \o caught ELSE <<>>)
          /\ current_status' = IF probed THEN us.status ELSE current_status
          /\ ui' = IF probed THEN us.ui ELSE ui
    /\ pc' = "idle"
    /\ cmd' = "none"
    /\ UNCHANGED <<exit_code, systemd_interface, svc, penv, pres>>

ToggleService_same(trig) == SetServiceStateBegin(current_status, trig)

\* WarpTrayApp.toggle_service
ToggleService(trig) == SetServiceStateBegin(~current_status, trig)

\* the menu: a disabled QAction cannot be triggered
MenuStart ==
    /\ ui.start_enabled
    /\ SetServiceStateBegin(TRUE, Trigger("menu", "start"))

MenuStop ==
    /\ ui.stop_enabled
    /\ SetServiceStateBegin(FALSE, Trigger("menu", "stop"))

MenuRestart == RestartServiceBegin(Trigger("menu", "restart"))

\* exit_action -> app.quit; sys.exit(app.run())
MenuExit ==
    /\ pc = "idle"
    /\ pc' = "exited"
    /\ exit_code' = 0
    /\ log' = <<Trigger("menu", "exit")>>
    /\ UNCHANGED <<systemd_interface, current_status, ui, cmd, svc, penv, pres>>

ActivationReasons == {"Trigger", "MiddleClick", "Context", "DoubleClick", "Unknown"}

\* WarpTrayApp.tray_activated
TrayActivated(reason) ==
    CASE reason = "Trigger"     -> ToggleService(Trigger("activated", reason))
      [] reason = "MiddleClick" -> RestartServiceBegin(Trigger("activated", reason))
      [] OTHER ->
            /\ pc = "idle"
            /\ log' = <<Trigger("activated", reason)>>
            /\ UNCHANGED <<pc, exit_code, systemd_interface, current_status, ui,
                           cmd, svc, penv, pres>>

\* WarpTrayApp.on_palette_changed
PaletteChanged ==
    /\ pc = "idle"
    /\ ui' = UpdateIcon(ui, current_status)
    /\ log' = <<Trigger("palette", "")>>
    /\ UNCHANGED <<pc, exit_code, systemd_interface, current_status, cmd, svc,
                   penv, pres>>

Next ==
    \/ \E s \in ActiveStates : ServiceChanges(s)
    \/ \E tray \in BOOLEAN, bus \in BOOLEAN, env \in AppEnvs : Startup(tray, bus, env)
    \/ \E env \in AppEnvs : Tick(env)
    \/ MenuStart
    \/ MenuStop
    \/ MenuRestart
    \/ MenuExit
    \/ \E reason \in ActivationReasons : TrayActivated(reason)
    \/ PaletteChanged
    \/ \E out \in CmdOutcomes, env \in AppEnvs : SetServiceStateEnd(out, env)
    \/ \E out \in CmdOutcomes, env \in AppEnvs : RestartServiceEnd(out, env)

Spec == Init /\ [][Next]_vars

----------------------------------------------------------------------------
(* One call of get_service_status in every environment *)

InitProbe ==
    /\ pc = "probe"
    /\ exit_code = -1
    /\ systemd_interface \in BOOLEAN
    /\ current_status = FALSE
    /\ ui = NoUi
    /\ cmd = "none"
    /\ svc = "inactive"
    /\ log = <<>>
    /\ penv \in AllEnvs
    /\ pres = Pending

ProbeCall ==
    /\ pc = "probe"
    /\ pres = Pending
    /\ pres' = GetServiceStatus(systemd_interface, penv)
    /\ pc' = "probed"
    /\ UNCHANGED <<exit_code, systemd_interface, current_status, ui, cmd, svc,
                   log, penv>>

NextProbe == ProbeCall

SpecProbe == InitProbe /\ [][NextProbe]_vars

----------------------------------------------------------------------------
(* Reading the log *)

Where(kind) == {i \in DOMAIN log : log[i].ev = kind}
Count(kind) == Cardinality(Where(kind))

\* the handler in log issued a control command and has returned
CommandReturned == pc = "idle" /\ Where("ended") # {}
EndedAt  == CHOOSE i \in Where("ended") : TRUE
RunEvent == log[CHOOSE i \in Where("run") : TRUE]

\* the events a handler step appends: a command's second half extends log,
\* every other handler starts log afresh
NewEventsFrom ==
    IF pc = "cmd" THEN Len(log) + 1 ELSE 1

HandlerStep == svc' = svc

----------------------------------------------------------------------------
(* C1: a probe cycle delivers a transition exactly when its result differs
   from lastKnownState: every probe of a handler step is measured against the
   current_status the step started from, is followed by one on_status_changed
   call if it differs and by none if it is equal, and no on_status_changed call
   happens without such a probe. *)
C1_EdgeTriggered ==
    [][HandlerStep =>
        \A i \in NewEventsFrom..Len(log') :
            /\ log'[i].ev = "probe" =>
                 /\ log'[i].before = current_status
                 /\ (log'[i].result # current_status) <=>
                        /\ i < Len(log')
                        /\ log'[i + 1] = Emit(log'[i].result, UiThread)
            /\ log'[i].ev = "emit" =>
                 /\ i > NewEventsFrom
                 /\ log'[i - 1].ev = "probe"
                 /\ log'[i - 1].result # current_status
                 /\ Cardinality({j \in NewEventsFrom..Len(log') :
                                    log'[j].ev = "emit"}) = 1]_vars

\* a tick whose probe repeated the state already shown (Active) and so
\* delivered nothing
C1_Witness ==
    /\ pc = "idle"
    /\ current_status
    /\ log = <<Trigger("tick", ""), Probe(TRUE, TRUE)>>

(* C2: after a command handler returns, whatever the command's outcome,
   exactly one probe cycle has run after the command ended. *)
C2_ProbeAfterEveryCommand ==
    CommandReturned =>
        Cardinality({i \in Where("probe") : i > EndedAt}) = 1

----------------------------------------------------------------------------
(* Properties of one probe call (SpecProbe) *)

Probed == pc = "probed"

\* the structured query fails: no connection, an error reply, or it raises
StructuredFails == ~systemd_interface \/ penv.reply \in {"error", "raise"}

\* get_service_status ran the fallback command
FallbackUsed == ~systemd_interface \/ penv.reply = "raise"

\* s is the word "active" with nothing but whitespace before and after it
IsActiveInWhitespace(s) ==
    \E i \in 1..Len(s) :
        /\ i + Len(ActiveText) - 1 <= Len(s)
        /\ SubSeq(s, i, i + Len(ActiveText) - 1) = ActiveText
        /\ \A k \in 1..Len(s) :
              (k < i \/ k > i + Len(ActiveText) - 1) => s[k] \in Whitespace

(* C3: whenever the structured query fails (connection absent, error reply
   to GetUnit, or an exception), get_service_status returns what the fallback
   command probe returns in the same environment. *)
C3_FailureGivesFallback ==
    (Probed /\ StructuredFails) => pres = FallbackStatusCheck(penv)

C9_ProbeNeverRaises ==
    Probed =>
        /\ pres.kind = "return"
        /\ pres.val \in BOOLEAN
        /\ (StructuredFails /\ penv.fb # "exit") => pres.val = FALSE

\* the D-Bus query raised and the fallback command then timed out
C9_Witness ==
    /\ Probed
    /\ systemd_interface
    /\ penv.reply = "raise"
    /\ penv.fb = "timeout"
    /\ pres = Return(FALSE)

----------------------------------------------------------------------------
(* Properties of the command handlers (Spec) *)

\* the notifications a command handler showed after its command ended
OutcomeNotes == {i \in Where("notify") : i > EndedAt}
Outcome == log[EndedAt + 1]

IsSuccessNote(n, action) ==
    /\ n.ev = "notify"
    /\ n.title = "Warp Service"
    /\ n.icon = "Information"
    /\ n.text = CASE action = "start" -> "Service started"
                  [] action = "stop"  -> "Service stopped"
                  [] OTHER            -> "Service restarted"

IsFailureNote(n) ==
    /\ n.ev = "notify"
    /\ n.icon \in {"Warning", "Critical"}

(* C5: for start, stop and restart and whatever lastKnownState is, the
   outcome shown is the success message iff the command exited with code 0;
   after a non-zero exit it is a failure carrying stderr verbatim when stderr
   is non-empty and the generic "Failed to <action> service" otherwise. *)
C5_OutcomeFollowsExitCode ==
    CommandReturned =>
        LET e == log[EndedAt] IN
        /\ IsSuccessNote(Outcome, RunEvent.action) <=> (e.how = "exit" /\ e.rc = 0)
        /\ ~(e.how = "exit" /\ e.rc = 0) => IsFailureNote(Outcome)
        /\ (e.how = "exit" /\ e.rc # 0) =>
              /\ Outcome.icon = "Critical"
              /\ Outcome.text = IF e.stderr # "" THEN e.stderr
                                ELSE "Failed to " \o RunEvent.action \o " service"

\* stop issued while lastKnownState was Inactive and the unit inactive,
\* exiting 0 and reported as success
C5_Witness ==
    /\ CommandReturned
    /\ RunEvent.action = "stop"
    /\ log[EndedAt].how = "exit"
    /\ log[EndedAt].rc = 0
    /\ IsSuccessNote(Outcome, "stop")
    /\ svc = "inactive"
    /\ Probe(FALSE, FALSE) \in {log[i] : i \in DOMAIN log}

(* C6: a start, stop or restart that exceeds its timeout is reported by a
   warning notification with a timeout message, distinct from the critical
   notification of a non-zero exit or a failed invocation. *)
C6_TimeoutIsWarning ==
    (CommandReturned /\ log[EndedAt].how = "timeout") =>
        /\ Outcome.ev = "notify"
        /\ Outcome.icon = "Warning"

(* C7: every command handler shows exactly one outcome notification after
   its command ended and before it returns, of the kind its outcome calls
   for, and none while the command is still running. *)
C7_OneOutcomeNotification ==
    /\ CommandReturned =>
          /\ Cardinality(OutcomeNotes) = 1
          /\ Outcome.ev = "notify"
          /\ IF log[EndedAt].how = "exit" /\ log[EndedAt].rc = 0
             THEN IsSuccessNote(Outcome, RunEvent.action)
             ELSE IsFailureNote(Outcome)
    /\ pc = "cmd" =>
          /\ Where("ended") = {}
          /\ Count("notify") = 1

\* a start whose binary could not be run, reported by one critical notification
C7_Witness ==
    /\ CommandReturned
    /\ RunEvent.action = "start"
    /\ log[EndedAt].how = "oserror"
    /\ Outcome.icon = "Critical"
    /\ Len(log) = EndedAt + 1

(* C8: current_status changes only in the compare-and-emit step of a probe
   cycle: a step that changes it has run a probe whose result is the new
   value and differs from the old; issuing a command, a command timing out or
   failing to run, a tray click and a palette change leave it unchanged. *)
C8_OnlyProbesChangeStatus ==
    [][current_status' # current_status =>
          \E i \in NewEventsFrom..Len(log') :
              /\ log'[i] = Probe(current_status', current_status)
              /\ i < Len(log')
              /\ log'[i + 1] = Emit(current_status', UiThread)]_vars

\* a start that exited 0 while the probe after it still found the unit
\* inactive: lastKnownState stayed Inactive
C8_Witness ==
    /\ CommandReturned
    /\ RunEvent.action = "start"
    /\ log[EndedAt].how = "exit"
    /\ log[EndedAt].rc = 0
    /\ log[Len(log)] = Probe(FALSE, FALSE)
    /\ ~current_status

(* C10: the probe a command triggers runs after the command's process has
   exited: no probe is in the log while the command runs, every probe of a
   command handler comes after the command's exit, and every transition is
   delivered on the UI thread. *)
C10_ProbeAfterExit ==
    /\ pc = "cmd" => Where("probe") = {}
    /\ \A i \in Where("probe") :
          Where("run") # {} =>
              \E k \in Where("ended") :
                  /\ k < i
                  /\ log[k].how = "exit"
                  /\ \A j \in Where("run") : j < k
    /\ \A i \in Where("emit") : log[i].thread = UiThread

\* a restart that exited, then the probe, then the transition it delivered
C10_Witness ==
    /\ CommandReturned
    /\ RunEvent.action = "restart"
    /\ Len(log) = EndedAt + 3
    /\ log[EndedAt + 2].ev = "probe"
    /\ log[EndedAt + 3].ev = "emit"

----------------------------------------------------------------------------
(* Scheduling of probes (Spec) *)

\* the handler in log was started by this kind of event
TriggeredBy(what) == log # <<>> /\ log[1].ev = "trigger" /\ log[1].what = what

(* C11: probes never overlap and every trigger event, a tick or the
   completion of a command, observes exactly one probe outcome: no probe runs
   while a command is in flight, a handler never runs two probe cycles, every
   probe is measured against the state the previous one left, and the handler
   of a tick and of a completed command each hold exactly one probe. *)
C11_OneProbePerTrigger ==
    /\ pc = "cmd" => Where("probe") = {}
    /\ Count("probe") <= 1
    /\ \A i \in Where("probe") :
          current_status = log[i].result
    /\ (pc = "idle" /\ TriggeredBy("tick")) => Count("probe") = 1
    /\ CommandReturned => Count("probe") = 1

\* the periodic timer can fire and run its probe cycle
TimerCanFire == ENABLED (\E env \in AppEnvs : Tick(env))

(* C12: the blocking control command is offloaded from the presentation
   thread: while a start, stop or restart command is in flight the event loop
   can still process a timer tick and its probe cycle. *)
C12_TicksWhileCommandRuns ==
    pc = "cmd" => TimerCanFire

(* C13: after every probe cycle lastKnownState is the value that probe
   returned, whatever it was before, whichever command ran last and however
   it ended, and whether or not the unit changed in between. *)
C13_LastProbeIsAuthoritative ==
    [][HandlerStep =>
        \A i \in NewEventsFrom..Len(log') :
            log'[i].ev = "probe" => current_status' = log'[i].result]_vars

\* a stop that failed (non-zero exit) while lastKnownState was Active, after
\* which the probe found the unit inactive all the same: lastKnownState
\* follows the probe, not the command
C13_Witness ==
    /\ CommandReturned
    /\ RunEvent.action = "stop"
    /\ log[EndedAt].how = "exit"
    /\ log[EndedAt].rc # 0
    /\ log[EndedAt + 2] = Probe(FALSE, TRUE)
    /\ ~current_status

----------------------------------------------------------------------------
(* The first transition (Spec) *)

\* the probes and on_status_changed calls a handler step appends to log
NewProbes(result) ==
    {i \in NewEventsFrom..Len(log') :
        log'[i].ev = "probe" /\ log'[i].result = result}
NewEmits == {i \in NewEventsFrom..Len(log') : log'[i].ev = "emit"}

(* C14: lastKnownState is Inactive at startup and stays Inactive until a
   probe returns Active; the probe that first returns Active delivers exactly
   one transition, to Active, and a probe that returns Active while
   lastKnownState is Active delivers none. *)
C14_FirstActiveOnce ==
    [][/\ pc = "init" => ~current_status
       /\ (HandlerStep /\ ~current_status) =>
             IF NewProbes(TRUE) = {}
             THEN ~current_status' /\ NewEmits = {}
             ELSE /\ current_status'
                  /\ Cardinality(NewEmits) = 1
                  /\ \A i \in NewProbes(TRUE) :
                        /\ log'[i] = Probe(TRUE, FALSE)
                        /\ i + 1 \in NewEmits
                        /\ log'[i + 1] = Emit(TRUE, UiThread)
       /\ (HandlerStep /\ current_status /\ NewProbes(TRUE) # {}) =>
             /\ NewEmits = {}
             /\ current_status']_vars

\* the probe of __init__ found the unit active and delivered the one
\* transition Inactive -> Active
C14_Witness ==
    /\ pc = "idle"
    /\ current_status
    /\ TriggeredBy("init")
    /\ log[2] = Probe(TRUE, FALSE)
    /\ log[3] = Emit(TRUE, UiThread)
    /\ Count("emit") = 1

----------------------------------------------------------------------------
(* Termination (Spec) *)

TrayUnavailableExit ==
    <<Trigger("init", ""), Printed("System tray is not available")>>

(* C15: when the system tray is unavailable at startup the process ends at
   once with exit code 1, having run no probe, started no timer and issued
   no command; nothing else is fatal: the only other way the process ends is
   the Exit menu action, with code 0, and no probe or command failure ends
   it. *)
C15_OnlyTrayUnavailableIsFatal ==
    [][/\ pc' # "crashed"
       /\ (\E i \in DOMAIN log' : log'[i].ev = "print") =>
             /\ pc = "init"
             /\ pc' = "exited"
             /\ exit_code' = 1
             /\ log' = TrayUnavailableExit
             /\ UNCHANGED <<systemd_interface, current_status, ui, cmd>>
       /\ (exit_code = -1 /\ exit_code' # -1) =>
             \/ /\ pc = "init"
                /\ exit_code' = 1
                /\ log' = TrayUnavailableExit
             \/ /\ pc = "idle"
                /\ exit_code' = 0
                /\ log' = <<Trigger("menu", "exit")>>
       /\ exit_code' = -1 => pc' \in {"init", "idle", "cmd"}
       /\ pc = "cmd" => pc' \in {"idle", "cmd"} /\ exit_code' = -1]_vars

\* the process ended with code 1 at startup, before any probe
C15_Witness ==
    /\ pc = "exited"
    /\ exit_code = 1
    /\ log = TrayUnavailableExit
    /\ ui = NoUi

----------------------------------------------------------------------------
(* The structured query (SpecProbe) *)

\* the D-Bus query read the unit's ActiveState property
StructuredSucceeds == systemd_interface /\ penv.reply = "ok"

(* C16: when the structured query reads the unit's ActiveState, the probe
   returns Active iff the value is exactly "active"; activating, inactive,
   failed and an unreadable property all give Inactive, whatever the fallback
   command would have said. *)
C16_OnlyActiveIsActive ==
    (Probed /\ StructuredSucceeds) =>
        /\ pres.kind = "return"
        /\ pres.val <=> penv.active_state = "active"
        /\ penv.active_state \in (PropertyValues \ {"active"}) => pres = Return(FALSE)

\* the unit is activating and the status command would print "active":
\* the probe still returns Inactive
C16_Witness ==
    /\ Probed
    /\ StructuredSucceeds
    /\ penv.active_state = "activating"
    /\ penv.fb = "exit"
    /\ penv.stdout = ActiveText \o <<"\n">>
    /\ pres = Return(FALSE)

----------------------------------------------------------------------------
(* Presentation (Spec) *)

\* __init__ has completed
Initialized == pc \in {"idle", "cmd"}

(* C17: in every state after initialization the presentation matches
   lastKnownState: Start is enabled iff it is Inactive, Stop is enabled iff
   it is Active, the status text is the matching Active/Inactive label and
   the icon is the one of lastKnownState. *)
C17_PresentationMatchesState ==
    Initialized =>
        /\ ui.start_enabled <=> ~current_status
        /\ ui.stop_enabled <=> current_status
        /\ ui.status_text = IF current_status
                            THEN "● Warp Service: Active"
                            ELSE "○ Warp Service: Inactive"
        /\ ui.icon = IF current_status THEN "active" ELSE "inactive"

----------------------------------------------------------------------------
(* Tray clicks (Spec) *)

\* this step is tray_activated(reason), entered from the idle event loop
ActivatedStep(reason) ==
    /\ HandlerStep
    /\ pc = "idle"
    /\ log' # <<>>
    /\ log'[1] = Trigger("activated", reason)

(* C18: a left click issues exactly one command, chosen from lastKnownState
   as it stands and without a probe: stop if Active, start if Inactive; a
   middle click issues exactly one restart; any other activation reason
   issues nothing. *)
C18_ClickIssuesOneCommand ==
    [][/\ ActivatedStep("Trigger") =>
             LET action == IF current_status THEN "stop" ELSE "start" IN
             /\ Len(log') = 3
             /\ log'[3] = Run(action, CommandTimeout)
             /\ pc' = "cmd"
             /\ cmd' = action
             /\ UNCHANGED <<current_status, ui>>
       /\ ActivatedStep("MiddleClick") =>
             /\ Len(log') = 3
             /\ log'[3] = Run("restart", RestartTimeout)
             /\ pc' = "cmd"
             /\ cmd' = "restart"
             /\ UNCHANGED <<current_status, ui>>
       /\ \A reason \in ActivationReasons \ {"Trigger", "MiddleClick"} :
             ActivatedStep(reason) =>
                 /\ Len(log') = 1
                 /\ UNCHANGED <<pc, cmd, current_status, ui>>
       /\ Cardinality({i \in DOMAIN log' : log'[i].ev = "run"}) <= 1]_vars

\* a left click while lastKnownState is Active though the unit is in fact
\* inactive: stop is issued, no probe is run first
C18_Witness ==
    /\ pc = "cmd"
    /\ log[1] = Trigger("activated", "Trigger")
    /\ current_status
    /\ svc = "inactive"
    /\ cmd = "stop"
    /\ Where("probe") = {}

----------------------------------------------------------------------------
(* Convergence (SpecLive) *)

\* __init__ runs once the process starts; an idle event loop fires the due
\* timer however many clicks arrive; subprocess.run returns within its timeout
SpecLive ==
    /\ Init
    /\ [][Next]_vars
    /\ WF_vars(\E tray \in BOOLEAN, bus \in BOOLEAN, env \in AppEnvs :
                   Startup(tray, bus, env))
    /\ SF_vars(\E env \in AppEnvs : Tick(env))
    /\ WF_vars(\E out \in CmdOutcomes, env \in AppEnvs :
                   SetServiceStateEnd(out, env))
    /\ WF_vars(\E out \in CmdOutcomes, env \in AppEnvs :
                   RestartServiceEnd(out, env))

\* the unit does not change in this step and every probe of the step
\* reports its real state
SettledStep ==
    /\ svc' = svc
    /\ \A i \in NewEventsFrom..Len(log') :
          log'[i].ev = "probe" => log'[i].result = (svc = "active")

\* the application is running (it has not quit)
AppRuns == exit_code = -1

Converged == current_status = (svc = "active")

(* C19: if from some point on the unit stops changing and every probe
   reports its real state, then, the application running and its timer firing
   fairly, lastKnownState eventually equals the real state and stays equal to
   it, whatever commands were issued or failed before. *)
C19_Convergence ==
    (<>[][SettledStep]_vars /\ []AppRuns) => <>[]Converged

\* a timer tick that corrected lastKnownState from Active to the unit's
\* real state after a command had left it stale
C19_Witness ==
    /\ pc = "idle"
    /\ log = <<Trigger("tick", ""), Probe(FALSE, TRUE), Emit(FALSE, UiThread)>>
    /\ svc = "failed"
    /\ Converged

====
